---- MODULE Spec2Model ----
(***************************************************************************)
(* Website Content Checker (app.py): the Start Scan handler and the        *)
(* breadth-first crawl of scan_website, with the web it crawls.            *)
(*                                                                         *)
(* A URL is a record [scheme, host, path]; a path is the sequence of its   *)
(* segments, a trailing "/" being a last empty segment ("/a/" is           *)
(* <<"a", "">>, "/" is <<"">>, the empty path is << >>).  A text is a      *)
(* sequence of characters.                                                 *)
(***************************************************************************)
EXTENDS Integers, Sequences, FiniteSets, TLC

\* ------------------------------------------------------------------ bounds
\* The largest value of the "Maximum pages to scan" slider that is explored.
MaxBudget == 4

\* The longest text and the longest keyword the matcher is applied to.
MaxTextLen == 5
MaxKeywordLen == 2

\* ------------------------------------------------------------------ URLs
Url(s, h, p) == [scheme |-> s, host |-> h, path |-> p]

\* The empty string typed into the URL box.
NoUrl == Url("", "", << >>)

\* The string "/" typed into the URL box.
SlashOnly == Url("", "", <<"">>)

SiteRoot  == Url("https", "site", << >>)
SiteSlash == Url("https", "site", <<"">>)
SiteA     == Url("https", "site", <<"a">>)
SiteB     == Url("https", "site", <<"b">>)
PlainA    == Url("http", "site", <<"a">>)
OtherX    == Url("https", "other", <<"x">>)

\* An href or src attribute: an absolute URL, or an absolute-path reference.
Abs(u) == [abs |-> TRUE, url |-> u]
Rel(p) == [abs |-> FALSE, url |-> Url("", "", p)]

\* urlparse(u).netloc
netloc(u) == u.host

\* urljoin(base, ref): an absolute reference replaces the base, an
\* absolute-path reference keeps the scheme and the host of the base.
urljoin(base, ref) ==
    IF ref.abs THEN ref.url ELSE Url(base.scheme, base.host, ref.url.path)

\* The URL used as it was typed.
rstrip_none(u) == u

\* str.rstrip("/") on a URL: every trailing "/" of the path is removed.
RECURSIVE rstrip(_)
rstrip(u) ==
    IF u.path # << >> /\ u.path[Len(u.path)] = ""
    THEN rstrip(Url(u.scheme, u.host, SubSeq(u.path, 1, Len(u.path) - 1)))
    ELSE u

\* ------------------------------------------------------------------ texts
LowerChar(c) == IF c = "A" THEN "a" ELSE IF c = "B" THEN "b" ELSE c

\* str.lower()
lower(t) == [i \in 1..Len(t) |-> LowerChar(t[i])]

\* A count that moves on by one character after a match.
RECURSIVE CountFrom_overlapping(_, _, _)
CountFrom_overlapping(text, keyword, i) ==
    IF i + Len(keyword) - 1 > Len(text) THEN 0
    ELSE (IF SubSeq(text, i, i + Len(keyword) - 1) = keyword THEN 1 ELSE 0)
         + CountFrom_overlapping(text, keyword, i + 1)

\* str.count(keyword) from position i (1-based): non-overlapping occurrences,
\* left to right; the empty keyword occurs at every position and at the end.
RECURSIVE CountFrom(_, _, _)
CountFrom(text, keyword, i) ==
    IF i + Len(keyword) - 1 > Len(text) THEN 0
    ELSE IF SubSeq(text, i, i + Len(keyword) - 1) = keyword
         THEN 1 + CountFrom(text, keyword,
                            i + (IF Len(keyword) = 0 THEN 1 ELSE Len(keyword)))
         ELSE CountFrom(text, keyword, i + 1)

count_occurrences(text, keyword) ==
    IF text = << >> THEN 0 ELSE CountFrom(text, keyword, 1)

\* ------------------------------------------------------------------ the web
\* What an image resource yields: the text OCR recognises in it (Failed when
\* the download, the decoding or tesseract raises) and the verdict of the
\* contour heuristic (Failed likewise).
Failed == "failed"

ImageResource(img_url) ==
    LET name == IF img_url.path = << >> THEN "" ELSE img_url.path[Len(img_url.path)]
    IN  CASE name = "word.png"   -> [ocr |-> <<"A">>, visual |-> "yes"]
          [] name = "twice.png"  -> [ocr |-> <<"a", "b", "a">>, visual |-> "no"]
          [] name = "shape.png"  -> [ocr |-> << >>, visual |-> "yes"]
          [] name = "photo.png"  -> [ocr |-> << >>, visual |-> "no"]
          [] name = "notess.png" -> [ocr |-> Failed, visual |-> "yes"]
          [] OTHER               -> [ocr |-> Failed, visual |-> Failed]

\* An <img> element: its src attribute, or none.
Img(name) == [src |-> TRUE, ref |-> Rel(<<name>>)]
ImgNoSrc  == [src |-> FALSE, ref |-> Rel(<< >>)]

\* A page as served: ok is FALSE when requests.get or the parser raises.
Page(ok, text, links, imgs) ==
    [ok |-> ok, text |-> text, links |-> links, imgs |-> imgs]

\* What a URL that nothing serves amounts to.
Unreachable == Page(FALSE, << >>, << >>, << >>)

\* The pages whose anchors vary, the pages of the crawled site, and every
\* URL that serves a page.
Hubs  == {SiteRoot, SiteA}
Sites == Hubs \cup {PlainA, SiteB}
Urls  == Sites \cup {OtherX}

\* The anchors of a hub.
LinkLists ==
    { << >>,
      <<Rel(<<"a">>)>>,
      <<Rel(<<"a">>), Rel(<<"a">>), Rel(<<"a">>)>>,
      <<Abs(PlainA), Rel(<<"a">>)>>,
      <<Abs(OtherX), Abs(SiteRoot)>>,
      <<Abs(OtherX), Rel(<<"b">>)>> }

\* The anchors of the other pages.
FixedLinks(u) ==
    CASE u = PlainA -> <<Abs(SiteRoot), Rel(<<"b">>)>>
      [] u = SiteB  -> << >>
      [] OTHER      -> <<Rel(<<"x">>)>>

\* The visible text and the images of each page.
ContentOf(u) ==
    CASE u = SiteRoot ->
           [text |-> <<"A", "b">>,
            imgs |-> <<Img("gone.png"), Img("word.png"), Img("twice.png")>>]
      [] u = SiteA ->
           [text |-> <<"b">>,
            imgs |-> <<Img("notess.png"), Img("shape.png"), Img("twice.png")>>]
      [] u = PlainA ->
           [text |-> <<"b", "B">>, imgs |-> <<ImgNoSrc, Img("photo.png")>>]
      [] u = SiteB ->
           [text |-> <<"B", "a">>, imgs |-> << >>]
      [] OTHER ->
           [text |-> <<"a">>, imgs |-> <<Img("word.png")>>]

\* The webs explored: every hub carries one of the anchor lists, and a hub
\* or the page of the other scheme may not answer (it then has its content
\* and one anchor all the same).
Webs ==
    { [u \in Urls |->
         Page(u \notin down, ContentOf(u).text,
              IF u \in down THEN <<Rel(<<"a">>)>>
              ELSE IF u \in Hubs THEN f[u] ELSE FixedLinks(u),
              ContentOf(u).imgs)] :
      f \in [Hubs -> LinkLists], down \in SUBSET (Hubs \cup {PlainA}) }

\* requests.get(u): the empty path is requested as "/", and a URL nothing
\* serves does not answer.
Serve(w, u) ==
    LET r == IF u.path = <<"">> THEN Url(u.scheme, u.host, << >>) ELSE u
    IN  IF r \in DOMAIN w THEN w[r] ELSE Unreachable

Modes == {"Text only", "Images only", "Text + Images"}

Phrases == { << >>, <<"A">>, <<"b">> }

SeedInputs == {NoUrl, SlashOnly, SiteSlash}

\* ------------------------------------------------------------------ state
VARIABLES
    web,            \* the site: URL -> page served
    website_url,    \* the four widgets
    search_text,
    search_mode,
    max_pages,
    pc,             \* where the script is
    base_url,       \* scan_website's arguments and locals
    keyword,
    mode,
    budget,
    visited,
    queue,
    results,
    scanned,
    url,
    soup,
    page_text,
    text_count,
    image_count,
    image_has_text,
    imgs,
    events,         \* the progress events emitted, in order
    net,            \* the requests sent, in order
    matched,        \* the pages the text matcher was applied to, in order
    dequeued,       \* the URLs taken from the queue, in order
    enqueued,       \* the URLs put into the queue, in order
    prev            \* the outcome of the previous scan of this session

widgets == <<website_url, search_text, search_mode, max_pages>>
locals  == <<url, soup, page_text, text_count, image_count, image_has_text, imgs>>
crawl   == <<base_url, keyword, mode, budget, visited, queue, results, scanned>>
history == <<events, net, matched, dequeued, enqueued>>
vars    == <<web, widgets, pc, crawl, locals, history, prev>>

NoSoup == [ok |-> FALSE, links |-> << >>, imgs |-> << >>]
NoPrev == [any |-> FALSE, events |-> << >>, dequeued |-> << >>, scanned |-> 0]

Init ==
    /\ web \in Webs
    /\ website_url \in SeedInputs
    /\ search_text \in Phrases
    /\ search_mode \in Modes
    /\ max_pages \in 1..MaxBudget
    /\ pc = "idle"
    /\ base_url = NoUrl
    /\ keyword = << >>
    /\ mode = "Text only"
    /\ budget = 1
    /\ visited = {}
    /\ queue = << >>
    /\ results = << >>
    /\ scanned = 0
    /\ url = NoUrl
    /\ soup = NoSoup
    /\ page_text = << >>
    /\ text_count = 0
    /\ image_count = 0
    /\ image_has_text = FALSE
    /\ imgs = << >>
    /\ events = << >>
    /\ net = << >>
    /\ matched = << >>
    /\ dequeued = << >>
    /\ enqueued = << >>
    /\ prev = NoPrev

\* ------------------------------------------------------------------ the UI
\* "Start Scan" with a missing URL or phrase: st.error, no scan.
RejectInput ==
    /\ pc = "idle"
    /\ (website_url = NoUrl \/ search_text = << >>)
    /\ pc' = "rejected"
    /\ UNCHANGED <<web, widgets, crawl, locals, history, prev>>

\* "Start Scan" with both inputs: scan_website is entered with the stripped
\* URL and the lower-cased phrase, and initialises its state.
StartScan ==
    /\ pc = "idle"
    /\ ~(website_url = NoUrl \/ search_text = << >>)
    /\ base_url' = rstrip(website_url)
    /\ keyword' = lower(search_text)
    /\ mode' = search_mode
    /\ budget' = max_pages
    /\ visited' = {}
    /\ queue' = <<rstrip(website_url)>>
    /\ results' = << >>
    /\ scanned' = 0
    /\ events' = << >>
    /\ net' = << >>
    /\ matched' = << >>
    /\ dequeued' = << >>
    /\ enqueued' = <<rstrip(website_url)>>
    /\ pc' = "loop"
    /\ UNCHANGED <<web, widgets, locals, prev>>

\* ------------------------------------------------------------------ the scan
\* The image steps running whatever the mode.
InImageMode_all(m) == TRUE

\* The two mode tests of the loop.
InTextMode(m)  == m \in {"Text only", "Text + Images"}
InImageMode(m) == m \in {"Images only", "Text + Images"}

\* The loop condition with the budget test off by one.
LoopCond_inclusive == queue # << >> /\ scanned <= budget

\* The loop condition of scan_website.
LoopCond == queue # << >> /\ scanned < budget

\* The visited test of the loop never firing.
AlreadyVisited_never(u) == FALSE

\* The visited test of the loop.
AlreadyVisited(u) == u \in visited

\* deque.pop(): the entry is taken from the right end.
pop(q) == [item |-> q[Len(q)], rest |-> SubSeq(q, 1, Len(q) - 1)]

\* deque.popleft(): the entry taken and the queue left.
popleft(q) == [item |-> Head(q), rest |-> Tail(q)]

\* A visited set that keeps the last URL only.
MarkVisited_last(v, u) == {u}

\* visited.add(url)
MarkVisited(v, u) == v \cup {u}

\* A progress report that shows the count of the pages finished before.
ProgressEvent_stale(n, b, u) == [scanned |-> n - 1, budget |-> b, url |-> u]

\* What the three progress widgets are given for a page: the fraction
\* scanned / max_pages, "Pages scanned: scanned / max_pages", and the URL.
ProgressEvent(n, b, u) == [scanned |-> n, budget |-> b, url |-> u]

\* One dequeue: an already visited URL is dropped, any other is marked
\* visited, counted and reported to the three progress widgets.
Dequeue ==
    /\ pc = "loop"
    /\ LoopCond
    /\ queue' = popleft(queue).rest
    /\ url' = popleft(queue).item
    /\ dequeued' = Append(dequeued, popleft(queue).item)
    /\ IF AlreadyVisited(popleft(queue).item)
       THEN /\ pc' = "loop"
            /\ UNCHANGED <<visited, scanned, events>>
       ELSE /\ visited' = MarkVisited(visited, popleft(queue).item)
            /\ scanned' = scanned + 1
            /\ events' = Append(events,
                  ProgressEvent(scanned + 1, budget, popleft(queue).item))
            /\ pc' = "fetch"
    /\ UNCHANGED <<web, widgets, base_url, keyword, mode, budget, results, soup,
                   page_text, text_count, image_count, image_has_text, imgs,
                   net, matched, enqueued, prev>>

\* A fetcher that hands back the document of a request that failed.
get_page_content_leaky(w, u) ==
    [soup |-> [ok |-> TRUE, links |-> Serve(w, u).links, imgs |-> Serve(w, u).imgs],
     text |-> lower(Serve(w, u).text)]

\* get_page_content(url): the parsed document and its lower-cased text, or
\* no document and the empty text when anything raises.
get_page_content(w, u) ==
    IF Serve(w, u).ok
    THEN [soup |-> [ok |-> TRUE, links |-> Serve(w, u).links,
                    imgs |-> Serve(w, u).imgs],
          text |-> lower(Serve(w, u).text)]
    ELSE [soup |-> NoSoup, text |-> << >>]

\* The page is fetched, then the three signals are reset.
Fetch ==
    /\ pc = "fetch"
    /\ net' = Append(net, [kind |-> "page", url |-> url])
    /\ soup' = get_page_content(web, url).soup
    /\ page_text' = get_page_content(web, url).text
    /\ text_count' = 0
    /\ image_count' = 0
    /\ image_has_text' = FALSE
    /\ imgs' = << >>
    /\ pc' = "text"
    /\ UNCHANGED <<web, widgets, crawl, url, events, matched, dequeued,
                   enqueued, prev>>

\* The text search, and the entry of the image loop.
TextSearch ==
    /\ pc = "text"
    /\ IF InTextMode(mode)
       THEN /\ text_count' = count_occurrences(page_text, keyword)
            /\ matched' = Append(matched, url)
       ELSE UNCHANGED <<text_count, matched>>
    /\ IF InImageMode(mode) /\ soup.ok /\ soup.imgs # << >>
       THEN imgs' = soup.imgs /\ pc' = "images"
       ELSE imgs' = << >> /\ pc' = "record"
    /\ UNCHANGED <<web, widgets, crawl, url, soup, page_text, image_count,
                   image_has_text, events, net, dequeued, enqueued, prev>>

\* extract_text_from_image(img_url): the lower-cased OCR text, or the empty
\* text when anything raises.
extract_text_from_image(img_url) ==
    IF ImageResource(img_url).ocr = Failed THEN << >>
    ELSE lower(ImageResource(img_url).ocr)

\* A detector that answers True when it raises.
image_contains_text_lenient(img_url) == ImageResource(img_url).visual # "no"

\* image_contains_text(img_url): the verdict of the contour heuristic, or
\* False when anything raises.
image_contains_text(img_url) == ImageResource(img_url).visual = "yes"

\* The visual detector asked about every image.
VisualPending_always(flag) == TRUE

\* The first operand of the visual test: `not image_has_text`.
VisualPending(flag) == ~flag

\* One iteration of the image loop.
ImageStep ==
    /\ pc = "images"
    /\ imgs # << >>
    /\ LET img     == Head(imgs)
           img_url == urljoin(url, img.ref)
       IN  IF ~img.src
           THEN UNCHANGED <<image_count, image_has_text, net>>
           ELSE /\ image_count' = image_count
                     + count_occurrences(extract_text_from_image(img_url), keyword)
                /\ IF VisualPending(image_has_text)
                   THEN /\ image_has_text' =
                             (IF image_contains_text(img_url) THEN TRUE
                              ELSE image_has_text)
                        /\ net' = net \o <<[kind |-> "ocr", url |-> img_url],
                                           [kind |-> "visual", url |-> img_url]>>
                   ELSE /\ UNCHANGED image_has_text
                        /\ net' = Append(net, [kind |-> "ocr", url |-> img_url])
    /\ imgs' = Tail(imgs)
    /\ pc' = IF Tail(imgs) = << >> THEN "record" ELSE "images"
    /\ UNCHANGED <<web, widgets, crawl, url, soup, page_text, text_count,
                   events, matched, dequeued, enqueued, prev>>

\* The record of a page, appended when a signal fired.
PageResult(u, tc, ic, vis) ==
    [URL |-> u, FoundInText |-> tc > 0, TextCount |-> tc,
     FoundInImages |-> ic > 0, ImageCount |-> ic,
     ImageContainsText |-> vis, TotalCount |-> tc + ic]

\* A record put in front of the list.
AppendResult_front(rs, r) == <<r>> \o rs

\* results.append(record)
AppendResult(rs, r) == Append(rs, r)

\* A record for every page.
HasSignal_always(tc, ic, vis) == TRUE

\* The test that guards results.append.
HasSignal(tc, ic, vis) == tc > 0 \/ ic > 0 \/ vis

Record ==
    /\ pc = "record"
    /\ IF HasSignal(text_count, image_count, image_has_text)
       THEN results' = AppendResult(results,
                PageResult(url, text_count, image_count, image_has_text))
       ELSE UNCHANGED results
    /\ pc' = "links"
    /\ UNCHANGED <<web, widgets, base_url, keyword, mode, budget, visited,
                   queue, scanned, locals, history, prev>>

\* Every link taken for internal.
is_internal_link_any(base, link) == TRUE

\* The scheme compared as well as the host.
is_internal_link_origin(base, link) ==
    netloc(link) = netloc(base) /\ link.scheme = base.scheme

\* is_internal_link(base_url, link)
is_internal_link(base, link) == netloc(link) = netloc(base)

\* The discovery loop without its visited test.
RECURSIVE Discovered_unfiltered(_, _, _, _)
Discovered_unfiltered(links, page, base, seen) ==
    IF links = << >> THEN << >>
    ELSE LET link == urljoin(page, Head(links))
         IN  (IF netloc(link) = netloc(base) THEN <<link>> ELSE << >>)
             \o Discovered_unfiltered(Tail(links), page, base, seen)

\* The discovery loop leaving after the first anchor.
Discovered_first(links, page, base, seen) ==
    IF links = << >> THEN << >>
    ELSE LET link == urljoin(page, Head(links))
         IN  IF netloc(link) = netloc(base) /\ link \notin seen
             THEN <<link>> ELSE << >>

\* The links of a page that the discovery loop appends to the queue.
RECURSIVE Discovered(_, _, _, _)
Discovered(links, page, base, seen) ==
    IF links = << >> THEN << >>
    ELSE LET link == urljoin(page, Head(links))
         IN  (IF is_internal_link(base, link) /\ link \notin seen
              THEN <<link>> ELSE << >>)
             \o Discovered(Tail(links), page, base, seen)

\* Link discovery nested in the image branch.
DiscoveryRuns_images == soup.ok /\ InImageMode(mode)

\* The test that guards link discovery.
DiscoveryRuns == soup.ok

Discover ==
    /\ pc = "links"
    /\ IF DiscoveryRuns
       THEN /\ queue' = queue \o Discovered(soup.links, url, base_url, visited)
            /\ enqueued' =
                  enqueued \o Discovered(soup.links, url, base_url, visited)
       ELSE UNCHANGED <<queue, enqueued>>
    /\ pc' = "loop"
    /\ UNCHANGED <<web, widgets, base_url, keyword, mode, budget, visited,
                   results, scanned, locals, events, net, matched, dequeued,
                   prev>>

\* The loop ends: scan_website returns (results, scanned).
Finish ==
    /\ pc = "loop"
    /\ ~LoopCond
    /\ pc' = "done"
    /\ UNCHANGED <<web, widgets, crawl, locals, history, prev>>

\* The user changes the search mode or the phrase; the script is rerun and
\* waits for "Start Scan" again.
Rerun ==
    /\ pc = "done"
    /\ \E m \in Modes, t \in Phrases \ {<< >>} :
          /\ <<m, t>> # <<search_mode, search_text>>
          /\ search_mode' = m
          /\ search_text' = t
    /\ prev' = [any |-> TRUE, events |-> events, dequeued |-> dequeued,
                scanned |-> scanned]
    /\ pc' = "idle"
    /\ UNCHANGED <<web, website_url, max_pages, crawl, locals, history>>

Next ==
    \/ RejectInput
    \/ StartScan
    \/ Dequeue
    \/ Fetch
    \/ TextSearch
    \/ ImageStep
    \/ Record
    \/ Discover
    \/ Finish
    \/ Rerun

Spec == Init /\ [][Next]_vars

\* A step of scan_website.
ScanStep ==
    Dequeue \/ Fetch \/ TextSearch \/ ImageStep \/ Record \/ Discover \/ Finish

\* The script is single-threaded and synchronous: once entered, scan_website
\* keeps taking steps until it returns.
FairSpec == Spec /\ WF_vars(ScanStep)

\* ------------------------------------------------------------------ the matcher
\* count_occurrences on its own: called with any text and any non-empty
\* keyword over two letters.
Alphabet == {"a", "b"}
Texts    == UNION { [1..n -> Alphabet] : n \in 0..MaxTextLen }
Keywords == UNION { [1..n -> Alphabet] : n \in 1..MaxKeywordLen }

MatcherInit ==
    /\ page_text \in Texts
    /\ keyword \in Keywords
    /\ text_count = 0
    /\ pc = "matcher"
    /\ web = << >>
    /\ website_url = NoUrl
    /\ search_text = << >>
    /\ search_mode = "Text only"
    /\ max_pages = 1
    /\ base_url = NoUrl
    /\ mode = "Text only"
    /\ budget = 1
    /\ visited = {}
    /\ queue = << >>
    /\ results = << >>
    /\ scanned = 0
    /\ url = NoUrl
    /\ soup = NoSoup
    /\ image_count = 0
    /\ image_has_text = FALSE
    /\ imgs = << >>
    /\ events = << >>
    /\ net = << >>
    /\ matched = << >>
    /\ dequeued = << >>
    /\ enqueued = << >>
    /\ prev = NoPrev

\* text_count = count_occurrences(page_text, search_text)
MatcherApply ==
    /\ pc = "matcher"
    /\ text_count' = count_occurrences(page_text, keyword)
    /\ pc' = "matched"
    /\ UNCHANGED <<web, widgets, crawl, url, soup, page_text, image_count,
                   image_has_text, imgs, history, prev>>

MatcherSpec == MatcherInit /\ [][MatcherApply]_vars

\* ------------------------------------------------------------------ helpers
Range(q) == { q[i] : i \in 1..Len(q) }

NoRepeat(q) == \A i, j \in 1..Len(q) : q[i] = q[j] => i = j

Last(q) == q[Len(q)]

\* The pages requested, in order.
RECURSIVE PageFetches(_)
PageFetches(n) ==
    IF n = << >> THEN << >>
    ELSE (IF Head(n).kind = "page" THEN <<Head(n).url>> ELSE << >>)
         \o PageFetches(Tail(n))

\* The URLs progress was reported for, in order.
ScanOrder(ev) == [i \in 1..Len(ev) |-> ev[i].url]

\* The link graph of the site as the crawl can see it: the anchors of the
\* pages that answer, resolved, those of the seed's host.
LinksOf(w, base, u) ==
    IF Serve(w, u).ok
    THEN { v \in { IF Serve(w, u).links[i].abs
                   THEN Serve(w, u).links[i].url
                   ELSE Url(u.scheme, u.host, Serve(w, u).links[i].url.path) :
                   i \in 1..Len(Serve(w, u).links) } :
             v.host = base.host }
    ELSE {}

RECURSIVE ReachFrom(_, _, _)
ReachFrom(w, base, S) ==
    LET T == S \cup UNION { LinksOf(w, base, u) : u \in S }
    IN  IF T = S THEN S ELSE ReachFrom(w, base, T)

Reachable == ReachFrom(web, base_url, {base_url})

GraphSize == Cardinality(Reachable)

\* Every node of the graph has the scheme of the seed.
OneScheme == \A v \in Reachable : v.scheme = base_url.scheme

\* ------------------------------------------------------------------ claims

\* C1: budget enforcement.  The scanned count never exceeds the budget, and
\* when the graph reachable from the seed has more nodes than the budget the
\* scan returns with scanned = budget and URLs still pending in the queue
\* (one of them not yet visited).
C1_BudgetEnforced ==
    /\ scanned <= budget
    /\ (pc = "done" /\ GraphSize > budget) =>
          /\ scanned = budget
          /\ queue # << >>
          /\ \E i \in 1..Len(queue) : queue[i] \notin visited

C1_Exhausted ==
    pc = "done" /\ GraphSize > budget /\ budget >= 2 /\ scanned = budget

\* C2 as stated: with a budget of at least the graph size the scan ends with
\* every reachable node visited and the queue empty.
C2_EndsEmpty ==
    (pc = "done" /\ OneScheme /\ budget >= GraphSize) =>
        (visited = Reachable /\ queue = << >>)

\* What holds at the return of a scan whose budget covers the graph: every
\* reachable node was reported, fetched and visited exactly once, nothing
\* pending is unvisited, and the queue is empty when the budget exceeds the
\* graph size.
C2_Outcome ==
    (pc = "done" /\ budget >= GraphSize) =>
        /\ visited = Reachable
        /\ scanned = GraphSize
        /\ Range(ScanOrder(events)) = Reachable /\ NoRepeat(ScanOrder(events))
        /\ Range(PageFetches(net)) = Reachable /\ NoRepeat(PageFetches(net))
        /\ \A i \in 1..Len(queue) : queue[i] \in visited
        /\ (budget > GraphSize => queue = << >>)

\* C2 (amended): frontier termination.  A scan whose budget is at least the
\* graph size returns, having visited every reachable node exactly once;
\* its queue is empty when the budget exceeds the graph size, and holds only
\* visited URLs when the budget equals it.
C2_Completes ==
    /\ []C2_Outcome
    /\ (pc = "loop" /\ budget >= GraphSize) ~> (pc = "done")

C2_ExactBudget ==
    /\ pc = "done" /\ budget = GraphSize /\ budget >= 2
    /\ visited = Reachable /\ queue # << >>

\* C3: idempotent visitation.  No URL is reported, fetched, matched or
\* recorded twice in a scan, and the dequeue of a visited URL only removes
\* it from the queue: scanned, the events, the requests, the results, the
\* visited set stay as they are and nothing is enqueued.
C3_NoRepeats ==
    /\ NoRepeat(ScanOrder(events))
    /\ NoRepeat(PageFetches(net))
    /\ NoRepeat(matched)
    /\ NoRepeat([i \in 1..Len(results) |-> results[i].URL])

C3_Idempotent ==
    /\ []C3_NoRepeats
    /\ [][(pc = "loop" /\ queue # << >> /\ scanned < budget
             /\ Head(queue) \in visited) =>
            /\ queue' = Tail(queue)
            /\ pc' = "loop"
            /\ UNCHANGED <<scanned, events, net, matched, results, visited>>]_vars

C3_Discarded ==
    /\ pc = "loop" /\ Len(dequeued) > scanned
    /\ Last(dequeued) \in visited /\ Last(dequeued) = url

\* The anchors of the current page, resolved against the page, and what a
\* step appended to the queue.
Resolved(k) ==
    IF soup.links[k].abs THEN soup.links[k].url
    ELSE Url(url.scheme, url.host, soup.links[k].url.path)

Anchors == 1..Len(soup.links)

\* C4: same-origin filter, host.  Every URL in the queue, taken from it or
\* visited has the host of the seed; link discovery enqueues no link to
\* another host, and enqueues every relative link, resolved against the page
\* it is on, that is not yet visited.
C4_SeedHostOnly ==
    /\ \A i \in 1..Len(queue) : queue[i].host = base_url.host
    /\ \A i \in 1..Len(dequeued) : dequeued[i].host = base_url.host
    /\ \A v \in visited : v.host = base_url.host

C4_SameHost ==
    /\ []C4_SeedHostOnly
    /\ [][(pc = "links" /\ soup.ok) =>
            \A k \in Anchors :
               /\ Resolved(k).host # base_url.host =>
                     Resolved(k) \notin Range(queue')
               /\ (~soup.links[k].abs /\ Resolved(k) \notin visited) =>
                     \E i \in (Len(queue) + 1)..Len(queue') :
                         queue'[i] = Resolved(k)]_vars

C4_RelativeEnqueued ==
    /\ pc = "loop" /\ soup.ok /\ Len(dequeued) = scanned /\ Last(dequeued) = url
    /\ \E k \in Anchors : Resolved(k).host # base_url.host
    /\ \E k \in Anchors : ~soup.links[k].abs /\ Resolved(k) \in Range(queue)

\* C5 as stated: no URL whose scheme differs from the seed's is enqueued.
C5_SchemeChecked ==
    \A i \in 1..Len(queue) : queue[i].scheme = base_url.scheme

\* C5 (amended): the test compares the host alone.  Link discovery appends
\* exactly the resolved links whose host is the seed's and that are not yet
\* visited, in order, whatever their scheme.
C5_HostOnly ==
    [][(pc = "links" /\ soup.ok) =>
         /\ Len(queue') = Len(queue) + Cardinality(
               { k \in Anchors : Resolved(k).host = base_url.host
                                 /\ Resolved(k) \notin visited })
         /\ SubSeq(queue', 1, Len(queue)) = queue
         /\ \A k \in Anchors :
               (Resolved(k).host = base_url.host /\ Resolved(k) \notin visited) =>
                   \E i \in (Len(queue) + 1)..Len(queue') : queue'[i] = Resolved(k)]_vars

C5_OtherSchemeScanned ==
    /\ pc = "done"
    /\ \E v \in visited : v.host = base_url.host /\ v.scheme # base_url.scheme

\* C6: sparse results.  The record step appends the record of the page when
\* one of its three signals fired and leaves the results alone otherwise, no
\* other step of the scan touches the results, and every record holds a
\* signal.
C6_EveryRecordHasSignal ==
    \A i \in 1..Len(results) :
        \/ results[i].TextCount > 0
        \/ results[i].ImageCount > 0
        \/ results[i].ImageContainsText

C6_Sparse ==
    /\ []C6_EveryRecordHasSignal
    /\ [][IF pc = "record"
          THEN IF text_count > 0 \/ image_count > 0 \/ image_has_text
               THEN /\ Len(results') = Len(results) + 1
                    /\ SubSeq(results', 1, Len(results)) = results
                    /\ results'[Len(results')].URL = url
                    /\ results'[Len(results')].TextCount = text_count
                    /\ results'[Len(results')].ImageCount = image_count
                    /\ results'[Len(results')].ImageContainsText = image_has_text
               ELSE results' = results
          ELSE pc \in {"loop", "fetch", "text", "images", "links"} =>
                  results' = results]_vars

C6_SilentPage ==
    /\ pc = "links" /\ soup.ok /\ soup.imgs # << >> /\ mode = "Text + Images"
    /\ text_count = 0 /\ image_count = 0 /\ ~image_has_text
    /\ results # << >> /\ Last(results).URL # url

\* C7: page fetch fail-soft.  A page whose fetch fails is visited, counted
\* and reported, gets no signal, no image step, no record and no new queue
\* entry in any mode, no page is fetched twice, and the scan goes on to the
\* loop test.
FetchFailed ==
    pc \in {"text", "images", "record", "links"} /\ ~Serve(web, url).ok

C7_FailedPageCounts ==
    /\ NoRepeat(PageFetches(net))
    /\ pc \in {"idle", "loop", "fetch", "text", "images", "record", "links",
               "done", "rejected"}
    /\ FetchFailed =>
          /\ pc # "images"
          /\ url \in visited
          /\ Last(events) = [scanned |-> scanned, budget |-> budget, url |-> url]
          /\ Last(PageFetches(net)) = url
          /\ text_count = 0 /\ image_count = 0 /\ ~image_has_text

C7_FailSoft ==
    /\ []C7_FailedPageCounts
    /\ [][FetchFailed =>
            /\ results' = results
            /\ queue' = queue
            /\ net' = net
            /\ pc' = (IF pc = "text" THEN "record"
                      ELSE IF pc = "record" THEN "links" ELSE "loop")]_vars

C7_CrawlGoesOn ==
    /\ pc = "fetch" /\ scanned >= 2
    /\ \E i \in 1..Len(events) - 1 : ~Serve(web, events[i].url).ok

\* C8: image fail-soft.  An image whose OCR fails adds nothing to the OCR
\* count, an image whose visual detection fails does not set the flag, the
\* step only moves on to the next image or to the record step, and the page
\* then reaches link discovery.
HeadImage == ImageResource(Url(url.scheme, url.host, Head(imgs).ref.url.path))

ImageFails ==
    /\ pc = "images" /\ Head(imgs).src
    /\ (HeadImage.ocr = Failed \/ HeadImage.visual = Failed)

C9_ModeGating ==
    /\ mode = "Text only" =>
          /\ \A i \in 1..Len(net) : net[i].kind = "page"
          /\ \A i \in 1..Len(results) :
                results[i].ImageCount = 0 /\ ~results[i].ImageContainsText
    /\ mode = "Images only" =>
          /\ matched = << >>
          /\ \A i \in 1..Len(results) : results[i].TextCount = 0
    /\ (mode = "Text + Images" /\ pc \in {"images", "record", "links"}) =>
          /\ matched = ScanOrder(events)
          /\ (pc # "images" /\ Serve(web, url).ok) =>
                \A k \in 1..Len(Serve(web, url).imgs) :
                    Serve(web, url).imgs[k].src =>
                        \E i \in 1..Len(net) :
                            /\ net[i].kind = "ocr"
                            /\ net[i].url = Url(url.scheme, url.host,
                                     Serve(web, url).imgs[k].ref.url.path)

C9_TextOnlyWithImages ==
    /\ mode = "Text only" /\ pc = "done" /\ scanned >= 2
    /\ results # << >>
    /\ \E v \in visited : Serve(web, v).ok /\ Serve(web, v).imgs # << >>

\* C10: link discovery does not depend on the mode or the phrase.  A scan
\* that follows another one of the same seed, budget and web, run with
\* another mode or phrase, takes the same URLs from the queue in the same
\* order, emits the same progress events and returns the same scanned count.
C10_SameWalk ==
    (pc = "done" /\ prev.any) =>
        /\ dequeued = prev.dequeued
        /\ events = prev.events
        /\ scanned = prev.scanned

C10_SecondScan ==
    /\ pc = "done" /\ prev.any /\ scanned >= 3 /\ Len(dequeued) > scanned

\* The dequeues that took a URL taken before.
Repeats(q) == { i \in 1..Len(q) : \E j \in 1..(i - 1) : q[j] = q[i] }

\* C11 as stated: the number of dequeues, discarded ones included, never
\* exceeds the budget.
C11_TotalDequeuesBounded == Len(dequeued) <= budget

\* C11 (amended): the budget bounds the dequeues that are processed, not all
\* of them.  The dequeues of a URL not taken before are the scanned ones,
\* there are at most budget of them, and every other dequeue is a discard
\* that the budget does not count.
C11_ProcessedBounded ==
    /\ scanned <= budget
    /\ Cardinality(Range(dequeued)) = scanned
    /\ Len(dequeued) = scanned + Cardinality(Repeats(dequeued))
    /\ \A i \in 1..Len(dequeued) :
          i \notin Repeats(dequeued) =>
              \E k \in 1..Len(events) : events[k].url = dequeued[i]

C11_DequeuesExceedBudget ==
    /\ pc = "done" /\ scanned = budget /\ Len(dequeued) > budget

\* The number of entries of q that are v.
Count(q, v) == Cardinality({ i \in 1..Len(q) : q[i] = v })

\* C12 as stated: the queue holds at most one entry for a visited URL.
C12_OnePendingPerVisited == \A v \in visited : Count(queue, v) <= 1

\* C12 (amended): the queue never gains an entry for a visited URL.  No step
\* raises the number of pending entries of a URL that is visited after it,
\* and the dequeue that visits a URL lowers it by one; a URL enqueued k times
\* before its visit therefore leaves k - 1 pending entries, which may be more
\* than one, and duplicates of a URL not yet visited are accepted.
C12_NoEnqueueOfVisited ==
    /\ [][\A v \in visited' : Count(queue', v) <= Count(queue, v)]_vars
    /\ [][(pc = "loop" /\ pc' = "fetch") =>
            /\ visited' = visited \cup {Head(queue)}
            /\ Count(queue', Head(queue)) = Count(queue, Head(queue)) - 1]_vars
    /\ [][(pc = "links" /\ soup.ok) =>
            \A k \in Anchors :
               (Resolved(k).host = base_url.host /\ Resolved(k) \notin visited) =>
                   Count(queue', Resolved(k)) > Count(queue, Resolved(k))]_vars

C12_TwoStaleEntries ==
    /\ pc = "fetch" /\ Count(queue, url) >= 2 /\ url \in visited

\* C13: input validation.  scan_website is never entered with an empty seed
\* URL or an empty phrase as its actual arguments, the stripped URL and the
\* lower-cased phrase: such input is rejected before any crawl starts.
C13_NeverEmptyArguments ==
    pc \in {"loop", "fetch", "text", "images", "record", "links", "done"} =>
        (base_url # NoUrl /\ keyword # << >>)

\* C14: progress events.  One event per scanned page, in scan order, holding
\* the scanned count, the budget and the URL; the counts of the events are
\* 1, 2, ..., scanned; the event of a page is emitted once the page is
\* visited and before it is requested; the dequeue of a visited URL emits
\* nothing, nor does any step but the dequeue of a URL not yet visited.
C14_OneEventPerPage ==
    /\ Len(events) = scanned
    /\ \A i \in 1..Len(events) :
          /\ events[i].scanned = i
          /\ events[i].budget = budget
          /\ events[i].url \in visited
    /\ ScanOrder(events) =
          PageFetches(net) \o (IF pc = "fetch" THEN <<url>> ELSE << >>)
    /\ pc = "fetch" => url \notin Range(PageFetches(net))

C14_ProgressEvents ==
    /\ []C14_OneEventPerPage
    /\ [][IF pc = "loop" /\ pc' = "fetch"
          THEN /\ Len(events') = Len(events) + 1
               /\ SubSeq(events', 1, Len(events)) = events
               /\ Last(events').url = Head(queue)
               /\ Last(events').scanned = scanned'
               /\ Head(queue) \in visited' /\ net' = net
          ELSE pc # "idle" => events' = events]_vars

C14_EventAfterDiscard ==
    /\ pc = "fetch" /\ scanned = 3 /\ Len(dequeued) > 3
    /\ Last(events) = [scanned |-> 3, budget |-> budget, url |-> url]

\* The scenario of C15: the seed typed with its trailing slash, budget 2,
\* text mode, a phrase that the root page holds once in another case, a root
\* page that links to /a, and a page /a without the phrase and without links.
C15_Given ==
    /\ website_url = SiteSlash /\ budget = 2 /\ mode = "Text only"
    /\ keyword = <<"a">>
    /\ Serve(web, SiteRoot) =
          Page(TRUE, <<"A", "b">>, <<Rel(<<"a">>)>>, ContentOf(SiteRoot).imgs)
    /\ Serve(web, SiteA) = Page(TRUE, <<"b">>, << >>, ContentOf(SiteA).imgs)

\* C15: end to end.  In that scenario the scan returns with scanned = 2 and
\* one record, that of the root page under its stripped URL, with text count
\* 1; both pages were reported and the queue is empty.
C15_EndToEnd ==
    (pc = "done" /\ C15_Given) =>
        /\ scanned = 2
        /\ ScanOrder(events) = <<SiteRoot, SiteA>>
        /\ Len(results) = 1
        /\ results[1].URL = SiteRoot
        /\ results[1].TextCount = 1 /\ results[1].FoundInText
        /\ results[1].TotalCount = 1
        /\ queue = << >>

C15_ScenarioDone == pc = "done" /\ C15_Given /\ Len(results) = 1

\* The positions where the keyword occurs in the text, and the sets of
\* occurrences no two of which overlap.
Occurrences(text, kw) ==
    { i \in 1..(Len(text) - Len(kw) + 1) : SubSeq(text, i, i + Len(kw) - 1) = kw }

Disjoint(S, n) == \A i, j \in S : i < j => i + n <= j

\* The occurrences a left-to-right scan counts: the first one, then each
\* first one that starts past the end of the one counted before.  It is the
\* set of disjoint occurrences in which every occurrence left out overlaps
\* one counted that starts before it.
LeftToRight(text, kw) ==
    CHOOSE G \in SUBSET Occurrences(text, kw) :
        /\ Disjoint(G, Len(kw))
        /\ \A i \in Occurrences(text, kw) \ G :
              \E g \in G : g < i /\ i < g + Len(kw)

\* C16: the matcher.  For a non-empty keyword count_occurrences returns the
\* number of occurrences a left-to-right scan without overlap counts, which
\* no set of disjoint occurrences exceeds: 2 for "abab" / "ab" and for
\* "abbab" / "ab", 1 for "aaa" / "aa"; it returns 0 for the empty text.
C16_NonOverlappingCount ==
    pc = "matched" =>
        /\ text_count = Cardinality(LeftToRight(page_text, keyword))
        /\ \A S \in SUBSET Occurrences(page_text, keyword) :
              Disjoint(S, Len(keyword)) => Cardinality(S) <= text_count
        /\ page_text = << >> => text_count = 0
        /\ (page_text = <<"a", "b", "a", "b">> /\ keyword = <<"a", "b">>) =>
              text_count = 2
        /\ (page_text = <<"a", "b", "b", "a", "b">> /\ keyword = <<"a", "b">>) =>
              text_count = 2
        /\ (page_text = <<"a", "a", "a">> /\ keyword = <<"a", "a">>) =>
              text_count = 1

C16_OverlapCountedOnce ==
    /\ pc = "matched" /\ text_count = 2
    /\ page_text = <<"a", "a", "a", "a", "a">> /\ keyword = <<"a", "a">>

\* The URL of the image the loop is at.
HeadImageUrl == Url(url.scheme, url.host, Head(imgs).ref.url.path)

\* C17: OCR and visual detection in the image loop.  Every image that has a
\* source is sent to OCR and its matches are added to the OCR count,
\* whatever the flag; the visual detector is asked about an image only while
\* the flag is false, and a flag that is true stays true to the end of the
\* page.  An <img> without a source is passed over.
C17_Asymmetry ==
    [][pc = "images" =>
         IF Head(imgs).src
         THEN /\ Len(net') > Len(net)
              /\ SubSeq(net', 1, Len(net)) = net
              /\ net'[Len(net) + 1] = [kind |-> "ocr", url |-> HeadImageUrl]
              /\ image_count' = image_count
                    + count_occurrences(extract_text_from_image(HeadImageUrl),
                                        keyword)
              /\ IF image_has_text
                 THEN Len(net') = Len(net) + 1 /\ image_has_text'
                 ELSE /\ Len(net') = Len(net) + 2
                      /\ net'[Len(net) + 2] =
                            [kind |-> "visual", url |-> HeadImageUrl]
                      /\ image_has_text' =
                            (ImageResource(HeadImageUrl).visual = "yes")
         ELSE UNCHANGED <<net, image_count, image_has_text>>]_vars

C17_OcrAfterFlag ==
    /\ pc = "record" /\ image_has_text /\ image_count = 3
    /\ Len(net) >= 3
    /\ Last(net).kind = "ocr"
    /\ net[Len(net) - 1].kind = "visual"
    /\ net[Len(net) - 1].url # Last(net).url

\* The first occurrences of the entries of q, in order.
RECURSIVE Firsts(_)
Firsts(q) ==
    IF q = << >> THEN << >>
    ELSE LET r == Firsts(SubSeq(q, 1, Len(q) - 1))
         IN  IF q[Len(q)] \in Range(r) THEN r ELSE Append(r, q[Len(q)])

\* The link distance of v from the seed in the graph of the site: the number
\* of rounds after which v is reached, -1 when it never is.
RECURSIVE DistFrom(_, _, _, _, _)
DistFrom(w, base, S, v, d) ==
    IF v \in S THEN d
    ELSE LET T == S \cup UNION { LinksOf(w, base, u) : u \in S }
         IN  IF T = S THEN -1 ELSE DistFrom(w, base, T, v, d + 1)

Dist(v) == DistFrom(web, base_url, {base_url}, v, 0)

\* C18: breadth-first order.  The queue is first in, first out; the pages
\* are scanned in the order in which they were first put into the queue; the
\* link distance from the seed never decreases along the scan order, and no
\* URL that waits unvisited in the queue is nearer than the page scanned last.
C18_BreadthFirst ==
    /\ enqueued = dequeued \o queue
    /\ ScanOrder(events) = SubSeq(Firsts(enqueued), 1, scanned)
    /\ \A i, j \in 1..Len(events) :
          i < j =>
              /\ Dist(events[i].url) >= 0
              /\ Dist(events[i].url) <= Dist(events[j].url)
    /\ \A k \in 1..Len(queue) :
          (queue[k] \notin visited /\ events # << >>) =>
              Dist(queue[k]) >= Dist(Last(events).url)

C18_ThreeLevels ==
    /\ pc = "done" /\ scanned = 4
    /\ Dist(events[2].url) = 1 /\ Dist(events[3].url) = 1
    /\ Dist(events[4].url) = 2
    /\ \E k \in 1..Len(queue) : queue[k] \notin visited /\ Dist(queue[k]) = 2

\* C19: the visited set and the counter.  Within a crawl the visited set
\* loses no URL; an iteration that scans adds the URL it took from the queue,
\* which was not in the set, and nothing else, and raises the counter by
\* one; no other step changes either; at the loop test and at the return the
\* counter is the size of the set, which holds the pages reported.
C19_CounterIsSize ==
    /\ pc \in {"loop", "done"} => scanned = Cardinality(visited)
    /\ visited = Range(ScanOrder(events))

C19_VisitedGrows ==
    /\ []C19_CounterIsSize
    /\ [][pc # "idle" => visited \subseteq visited']_vars
    /\ [][IF pc = "loop" /\ pc' = "fetch"
          THEN /\ Head(queue) \notin visited
               /\ visited' \ visited = {Head(queue)}
               /\ scanned' = scanned + 1
          ELSE pc # "idle" => (visited' = visited /\ scanned' = scanned)]_vars

C19_ThreeVisited ==
    /\ pc = "loop" /\ scanned = 3 /\ Cardinality(visited) = 3
    /\ Len(dequeued) > 3 /\ queue # << >>

\* The place of a URL in the scan order.
ScanIndex(u) == CHOOSE k \in 1..Len(events) : events[k].url = u

\* C20: the results are append-only.  Within a crawl every step leaves the
\* records already in the list as and where they are; the list holds at most
\* one record per URL, each of a page that was scanned, in the order of the
\* scan, and is never longer than the scanned count.
C20_OrderedRecords ==
    /\ Len(results) <= scanned
    /\ \A i \in 1..Len(results) :
          \E k \in 1..Len(events) : events[k].url = results[i].URL
    /\ \A i, j \in 1..Len(results) :
          i < j => ScanIndex(results[i].URL) < ScanIndex(results[j].URL)

C20_AppendOnly ==
    /\ []C20_OrderedRecords
    /\ [][pc # "idle" =>
            /\ Len(results') >= Len(results)
            /\ Len(results') <= Len(results) + 1
            /\ SubSeq(results', 1, Len(results)) = results]_vars

C20_RecordsWithGap ==
    /\ pc = "done" /\ scanned = 3 /\ Len(results) = 2
    /\ results[1].URL = events[1].url /\ results[2].URL = events[3].url
====
